---- MODULE Spec2Model ----
(***************************************************************************)
(* A model of ResponseValidator (src/Validation.py): the claim extractor,  *)
(* the source flattener, the question classifier, the specific-query and   *)
(* ranking validators, the general fact-checker and the adaptive           *)
(* dispatcher; and of AIAnalyst.load_data and AIAnalyst.ask (src/AI.py),   *)
(* which build the dataset that the validator is given.                    *)
(*                                                                         *)
(* Text is a sequence of one-character strings.  Positions in the model    *)
(* are 1-based; the fields that the code reports (position) are 0-based as *)
(* in Python.  Numbers are exact decimals in units of 1/Scale.             *)
(***************************************************************************)
EXTENDS Integers, Sequences, FiniteSets, TLC

VARIABLES pc, call, result, metric_patterns

vars == <<pc, call, result, metric_patterns>>

(***************************************************************************)
(* Bounds of the model.                                                    *)
(***************************************************************************)
MaxFrags == 3
MaxClaims == 10
MaxQWords == 2
MaxChannels == 4

(***************************************************************************)
(* Characters.                                                             *)
(***************************************************************************)
DigitChars == <<"0", "1", "2", "3", "4", "5", "6", "7", "8", "9">>
UpperChars == <<"A", "B", "C", "D", "E", "F", "G", "H", "I", "J", "K", "L", "M",
                "N", "O", "P", "Q", "R", "S", "T", "U", "V", "W", "X", "Y", "Z">>
LowerChars == <<"a", "b", "c", "d", "e", "f", "g", "h", "i", "j", "k", "l", "m",
                "n", "o", "p", "q", "r", "s", "t", "u", "v", "w", "x", "y", "z">>

Range(s) == {s[i] : i \in DOMAIN s}

Digits == Range(DigitChars)
Spaces == {" ", "\n", "\t"}
IsDigit(c) == c \in Digits
IsUpper(c) == c \in Range(UpperChars)
IsSpace(c) == c \in Spaces
\* \w of the regular expressions: letters, digits and the underscore
IsWordChar(c) == c \in Range(DigitChars) \cup Range(UpperChars) \cup Range(LowerChars) \cup {"_"}

DigitVal(c) == (CHOOSE i \in DOMAIN DigitChars : DigitChars[i] = c) - 1

\* str.lower() on one character and on a text
LowerChar(c) ==
    IF IsUpper(c) THEN LowerChars[CHOOSE i \in DOMAIN UpperChars : UpperChars[i] = c]
    ELSE c
Lower(s) == [i \in 1..Len(s) |-> LowerChar(s[i])]

Min(a, b) == IF a < b THEN a ELSE b
Max(a, b) == IF a > b THEN a ELSE b
Abs(x) == IF x < 0 THEN -x ELSE x

\* text[i..j] (1-based, inclusive); empty when j < i
Slice(s, i, j) == IF j < i THEN <<>> ELSE SubSeq(s, i, j)

\* s occurs in t starting at position i
OccursAt(s, t, i) == i >= 1 /\ i + Len(s) - 1 <= Len(t) /\ Slice(t, i, i + Len(s) - 1) = s

\* s occurs in t at position i, letter case ignored (s is in lower case)
OccursAtCI(s, t, i) ==
    i >= 1 /\ i + Len(s) - 1 <= Len(t) /\ \A k \in DOMAIN s : LowerChar(t[i + k - 1]) = s[k]

\* Python's  s in t
Contains(t, s) == \E i \in 1..(Len(t) + 1) : OccursAt(s, t, i)

\* the last position of the maximal run of characters of a class that starts
\* at position i (i - 1 when the run is empty): a greedy  [class]*
RunEnd(t, i, Class) ==
    CHOOSE j \in (i - 1)..Len(t) :
        /\ \A k \in i..j : t[k] \in Class
        /\ (j = Len(t) \/ t[j + 1] \notin Class)

CharAt(t, i) == IF i >= 1 /\ i <= Len(t) THEN t[i] ELSE ""

\* str.strip()
Strip(s) ==
    IF \A i \in DOMAIN s : IsSpace(s[i]) THEN <<>>
    ELSE LET a == CHOOSE i \in DOMAIN s : ~IsSpace(s[i]) /\ \A k \in 1..(i - 1) : IsSpace(s[k])
             b == CHOOSE i \in DOMAIN s : ~IsSpace(s[i]) /\ \A k \in (i + 1)..Len(s) : IsSpace(s[k])
         IN  SubSeq(s, a, b)

RECURSIVE Concat(_)
Concat(ss) == IF ss = <<>> THEN <<>> ELSE Head(ss) \o Concat(Tail(ss))

(***************************************************************************)
(* Numbers: float values as exact decimals, in units of 1/Scale.           *)
(***************************************************************************)
ScaleDigits == 5

RECURSIVE Pow10(_)
Pow10(n) == IF n = 0 THEN 1 ELSE 10 * Pow10(n - 1)

Scale == Pow10(ScaleDigits)

RECURSIVE DigitsValue(_)
DigitsValue(ds) ==
    IF ds = <<>> THEN 0
    ELSE 10 * DigitsValue(SubSeq(ds, 1, Len(ds) - 1)) + DigitVal(ds[Len(ds)])

\* number_str.replace(',', '').replace('$', '')
CleanNumber(s) == SelectSeq(s, LAMBDA c : c \notin {",", "$"})

\* float(clean_number) for the strings the patterns can capture: digits, an
\* optional point, digits.  ok = FALSE is the ValueError.
DotPos(s) == IF \E i \in DOMAIN s : s[i] = "." THEN CHOOSE i \in DOMAIN s : s[i] = "." ELSE Len(s) + 1

FractionValue(fp) ==
    DigitsValue(Slice(fp, 1, Min(Len(fp), ScaleDigits))) * Pow10(ScaleDigits - Min(Len(fp), ScaleDigits))

ParseParts(ip, fp) ==
    IF Len(ip) + Len(fp) = 0 THEN [ok |-> FALSE, v |-> 0]
    ELSE [ok |-> TRUE, v |-> DigitsValue(ip) * Scale + FractionValue(fp)]

ParseFloat(s) ==
    IF \E i \in DOMAIN s : ~(IsDigit(s[i]) \/ s[i] = ".") THEN [ok |-> FALSE, v |-> 0]
    ELSE ParseParts(Slice(s, 1, DotPos(s) - 1), Slice(s, DotPos(s) + 1, Len(s)))

(***************************************************************************)
(* The five patterns of extract_numerical_claims.  A match is a record:    *)
(* s, e = first and last position of the whole match (group 0); ns, ne =   *)
(* the captured number; ps, pe = the captured prefix (pe < ps when the     *)
(* pattern has one group only).  Each MatchAt operator gives the match     *)
(* that re finds when it tries the pattern at position i.                  *)
(***************************************************************************)
NoMatch == [ok |-> FALSE, s |-> 0, e |-> 0, ns |-> 0, ne |-> 0, ps |-> 0, pe |-> 0]
Match(s, e, ns, ne, ps, pe) == [ok |-> TRUE, s |-> s, e |-> e, ns |-> ns, ne |-> ne, ps |-> ps, pe |-> pe]

MinOf(S) == CHOOSE x \in S : \A y \in S : x <= y

\* the end of a greedy  \d+\.?\d*  that starts at the digit at position i
NumberEndFrom(t, d1) == IF CharAt(t, d1 + 1) = "." THEN RunEnd(t, d1 + 2, Digits) ELSE d1
NumberEnd(t, i) == NumberEndFrom(t, RunEnd(t, i, Digits))

\* the end of a greedy  \*?\*?  that starts after position w
StarsEnd(t, w) ==
    IF CharAt(t, w + 1) = "*" THEN (IF CharAt(t, w + 2) = "*" THEN w + 2 ELSE w + 1) ELSE w

\* \$([0-9,]+(?:\.[0-9]{2})?)
CurrencyChars == Digits \cup {","}
IsCurrencyChar(c) == c \in CurrencyChars
CurrencyRun(t, i, r) ==
    IF r < i + 1 THEN NoMatch
    ELSE IF CharAt(t, r + 1) = "." /\ IsDigit(CharAt(t, r + 2)) /\ IsDigit(CharAt(t, r + 3))
    THEN Match(i, r + 3, i + 1, r + 3, 1, 0)
    ELSE Match(i, r, i + 1, r, 1, 0)
MatchCurrency(t, i) ==
    IF CharAt(t, i) = "$" THEN CurrencyRun(t, i, RunEnd(t, i + 1, CurrencyChars)) ELSE NoMatch

\* (m?ROI)\s*(?:of|at|:|is)?\s*\*?\*?(\d+\.?\d*)\*?\*?   (IGNORECASE)
\* pe = end of the prefix, w1 = end of the first \s*, st = end of the leading
\* stars, ne = end of the number
ConnectiveEnd(t, w1) ==
    IF OccursAtCI(<<"o", "f">>, t, w1 + 1) \/ OccursAtCI(<<"a", "t">>, t, w1 + 1)
       \/ OccursAtCI(<<"i", "s">>, t, w1 + 1) THEN w1 + 2
    ELSE IF CharAt(t, w1 + 1) = ":" THEN w1 + 1
    ELSE w1
RoiNumber(t, i, pe, st, ne) == Match(i, StarsEnd(t, ne), st + 1, ne, i, pe)
RoiStars(t, i, pe, st) ==
    IF IsDigit(CharAt(t, st + 1)) THEN RoiNumber(t, i, pe, st, NumberEnd(t, st + 1)) ELSE NoMatch
RoiConnective(t, i, pe, w1) ==
    RoiStars(t, i, pe, StarsEnd(t, RunEnd(t, ConnectiveEnd(t, w1) + 1, Spaces)))
RoiPrefix(t, i, pe) == RoiConnective(t, i, pe, RunEnd(t, pe + 1, Spaces))
MatchRoi(t, i) ==
    IF OccursAtCI(<<"m", "r", "o", "i">>, t, i) THEN RoiPrefix(t, i, i + 3)
    ELSE IF OccursAtCI(<<"r", "o", "i">>, t, i) THEN RoiPrefix(t, i, i + 2)
    ELSE NoMatch

\* (\d+\.?\d*)\s*%
PercentageSign(t, i, ne, w) == IF CharAt(t, w + 1) = "%" THEN Match(i, w + 1, i, ne, 1, 0) ELSE NoMatch
PercentageNumber(t, i, ne) == PercentageSign(t, i, ne, RunEnd(t, ne + 1, Spaces))
MatchPercentage(t, i) ==
    IF IsDigit(CharAt(t, i)) THEN PercentageNumber(t, i, NumberEnd(t, i)) ELSE NoMatch

\* (saturation|saturated).*?(\d+\.?\d*)\s*%   (IGNORECASE; . does not match a newline)
\* the lazy .*? stops at the first position of the line where the rest matches
SaturationRest(i, pe, m) == Match(i, m.e, m.s, m.ne, i, pe)
SaturationLazy(t, i, pe, Cand) ==
    IF Cand = {} THEN NoMatch ELSE SaturationRest(i, pe, MatchPercentage(t, MinOf(Cand)))
SaturationPrefix(t, i, pe) ==
    SaturationLazy(t, i, pe,
        {j \in (pe + 1)..Len(t) : (\A k \in (pe + 1)..(j - 1) : t[k] # "\n") /\ MatchPercentage(t, j).ok})
MatchSaturation(t, i) ==
    IF OccursAtCI(<<"s", "a", "t", "u", "r", "a", "t", "i", "o", "n">>, t, i) THEN SaturationPrefix(t, i, i + 9)
    ELSE IF OccursAtCI(<<"s", "a", "t", "u", "r", "a", "t", "e", "d">>, t, i) THEN SaturationPrefix(t, i, i + 8)
    ELSE NoMatch

\* (?<!\$)(\d+\.?\d+)
NumberRun(t, i, d1) ==
    IF CharAt(t, d1 + 1) = "." /\ IsDigit(CharAt(t, d1 + 2))
    THEN Match(i, RunEnd(t, d1 + 2, Digits), i, RunEnd(t, d1 + 2, Digits), 1, 0)
    ELSE IF d1 >= i + 1 THEN Match(i, d1, i, d1, 1, 0)
    ELSE NoMatch
MatchNumber(t, i) ==
    IF IsDigit(CharAt(t, i)) /\ CharAt(t, i - 1) # "$" THEN NumberRun(t, i, RunEnd(t, i, Digits))
    ELSE NoMatch

\* \d+\.?\d*   (the pattern of the two re.findall calls)
DecimalEnd(i, ne) == Match(i, ne, i, ne, 1, 0)
MatchDecimal(t, i) == IF IsDigit(CharAt(t, i)) THEN DecimalEnd(i, NumberEnd(t, i)) ELSE NoMatch

\* the ordered pattern list: the claim types in priority order
patterns == <<"currency", "roi_metric", "percentage", "saturation", "number">>

MatchAt(claim_type, t, i) ==
    CASE claim_type = "currency"   -> MatchCurrency(t, i)
      [] claim_type = "roi_metric" -> MatchRoi(t, i)
      [] claim_type = "percentage" -> MatchPercentage(t, i)
      [] claim_type = "saturation" -> MatchSaturation(t, i)
      [] claim_type = "number"     -> MatchNumber(t, i)
      [] claim_type = "decimal"    -> MatchDecimal(t, i)

\* re.finditer: the non-overlapping matches from left to right, the search
\* resuming after the end of each match
RECURSIVE FindIter(_, _, _)
FindIterNext(claim_type, t, m) == <<m>> \o FindIter(claim_type, t, m.e + 1)
FindIterStarts(claim_type, t, Starts) ==
    IF Starts = {} THEN <<>> ELSE FindIterNext(claim_type, t, MatchAt(claim_type, t, MinOf(Starts)))
FindIter(claim_type, t, from) ==
    FindIterStarts(claim_type, t, {i \in from..Len(t) : MatchAt(claim_type, t, i).ok})

\* _is_list_marker / _is_list_number: one digit followed by ". " and an
\* upper-case letter within the next 10 characters.  position is 0-based.
ListMarkerTail(next_chars) ==
    /\ CharAt(next_chars, 1) = "."
    /\ RunEnd(next_chars, 2, Spaces) >= 2
    /\ IsUpper(CharAt(next_chars, RunEnd(next_chars, 2, Spaces) + 1))
IsListMarker(number_str, full_text, position) ==
    /\ Len(number_str) = 1
    /\ IsDigit(number_str[1])
    /\ position + 1 < Len(full_text)
    /\ ListMarkerTail(Slice(full_text, position + 2, Min(Len(full_text), position + 11)))

ContextWindow == 80

\* text[max(0, start - 80) : min(len, end + 80)].strip()
ContextOf(t, m) == Strip(Slice(t, Max(0, m.s - 1 - ContextWindow) + 1, Min(Len(t), m.e + ContextWindow)))

\* ProcessParsed without the test of the processed keys
ProcessParsedNoDedup(acc, claim_type, t, m, parsed) ==
    IF ~parsed.ok THEN acc
    ELSE [processed |-> acc.processed \cup {<<parsed.v, claim_type>>},
          claims    |-> Append(acc.claims,
              [display_value |-> Slice(t, m.s, m.e),
               raw_number    |-> parsed.v,
               context       |-> ContextOf(t, m),
               claim_type    |-> claim_type,
               prefix        |-> Slice(t, m.ps, m.pe),
               position      |-> m.s - 1])]

\* one step of the inner loop: the claims and the set of processed keys after match m
ProcessParsed(acc, claim_type, t, m, parsed) ==
    IF ~parsed.ok THEN acc
    ELSE IF <<parsed.v, claim_type>> \in acc.processed THEN acc
    ELSE [processed |-> acc.processed \cup {<<parsed.v, claim_type>>},
          claims    |-> Append(acc.claims,
              [display_value |-> Slice(t, m.s, m.e),
               raw_number    |-> parsed.v,
               context       |-> ContextOf(t, m),
               claim_type    |-> claim_type,
               prefix        |-> Slice(t, m.ps, m.pe),
               position      |-> m.s - 1])]
ProcessMatch(acc, claim_type, t, m) ==
    IF IsListMarker(Slice(t, m.ns, m.ne), t, m.s - 1) THEN acc
    ELSE ProcessParsed(acc, claim_type, t, m, ParseFloat(CleanNumber(Slice(t, m.ns, m.ne))))

RECURSIVE ProcessMatches(_, _, _, _)
ProcessMatches(acc, claim_type, t, ms) ==
    IF ms = <<>> THEN acc
    ELSE ProcessMatches(ProcessMatch(acc, claim_type, t, Head(ms)), claim_type, t, Tail(ms))

RECURSIVE ProcessPatterns(_, _, _)
ProcessPatterns(acc, t, k) ==
    IF k > Len(patterns) THEN acc
    ELSE ProcessPatterns(ProcessMatches(acc, patterns[k], t, FindIter(patterns[k], t, 1)), t, k + 1)

extract_numerical_claims(text) ==
    ProcessPatterns([processed |-> {}, claims |-> <<>>], text, 1).claims

(***************************************************************************)
(* The source dataset.  A dataset is a record: meta, the scalar leaves     *)
(* outside the entity list; has_channels, whether the key 'channels' is    *)
(* present; channels, the entity list.  An entity has a name, an id and    *)
(* the metric fields in DOMAIN metrics.                                    *)
(***************************************************************************)
EntityFields == <<"roi", "mroi", "spend", "contribution_pct">>

\* source_data.get('channels', [])
GetChannels(source_data) == IF source_data.has_channels THEN source_data.channels ELSE <<>>

\* channel.get(metric, None)
HasField(channel, metric) == metric \in DOMAIN channel.metrics

\* re.findall(r'\d+\.?\d*', s) with each match converted by float()
NumbersOf(s, ms) == [k \in 1..Len(ms) |-> ParseFloat(Slice(s, ms[k].ns, ms[k].ne)).v]
FindNumbers(s) == NumbersOf(s, FindIter("decimal", s, 1))

\* round(x, 2) of a value in units of 1/Scale, half to even
Round2(x) ==
    LET unit == Scale \div 100
        q    == x \div unit
        r    == x % unit
    IN  IF 2 * r > unit \/ (2 * r = unit /\ q % 2 = 1)
        THEN (q + 1) * unit ELSE q * unit

\* the percent form added also for 0 and 1
NumberLeafInclusive(obj) == IF 0 <= obj /\ obj <= Scale THEN <<obj, Round2(obj * 100)>> ELSE <<obj>>
\* the numeric-leaf case of extract_recursive
NumberLeaf(obj) == IF 0 < obj /\ obj < Scale THEN <<obj, Round2(obj * 100)>> ELSE <<obj>>

FlattenLeaf(leaf) == IF leaf.kind = "num" THEN NumberLeaf(leaf.v) ELSE FindNumbers(leaf.s)

RECURSIVE FlattenFields(_, _)
FlattenFields(channel, k) ==
    IF k > Len(EntityFields) THEN <<>>
    ELSE (IF HasField(channel, EntityFields[k]) THEN NumberLeaf(channel.metrics[EntityFields[k]]) ELSE <<>>)
         \o FlattenFields(channel, k + 1)

FlattenEntity(channel) ==
    FindNumbers(channel.name) \o FindNumbers(channel.id) \o FlattenFields(channel, 1)

\* _extract_source_numbers: the leaves in the order of the traversal
_extract_source_numbers(source_data) ==
    Concat([k \in 1..Len(source_data.meta) |-> FlattenLeaf(source_data.meta[k])])
    \o (IF source_data.has_channels
        THEN Concat([k \in 1..Len(source_data.channels) |-> FlattenEntity(source_data.channels[k])])
        ELSE <<>>)
    \o (IF "channel" \in DOMAIN source_data
        THEN Concat([k \in 1..Len(source_data.channel.items) |-> FlattenEntity(source_data.channel.items[k])])
        ELSE <<>>)

(***************************************************************************)
(* validate_claims                                                         *)
(***************************************************************************)
\* abs(raw_number - source_num) < 0.001
ClaimTolerance == Scale \div 1000
\* the comparison with <= in place of <
WithinToleranceInclusive(raw_number, source_num) == Abs(raw_number - source_num) <= ClaimTolerance
WithinTolerance(raw_number, source_num) == Abs(raw_number - source_num) < ClaimTolerance

ContextCut == 100
\* claim['context'][:100] + "..." if len(claim['context']) > 100 else claim['context']
ShortContext(context) ==
    IF Len(context) > ContextCut THEN SubSeq(context, 1, ContextCut) \o <<".", ".", ".">> ELSE context

\* the body of the loop over the claims: the result after one claim, Hits the
\* positions of the source numbers within the tolerance
ValidateHits(res, claim, source_numbers, Hits) ==
    IF Hits # {}
    THEN [res EXCEPT !.verified = @ + 1,
                     !.verified_claims = Append(@,
                         [display_value  |-> claim.display_value,
                          raw_number     |-> claim.raw_number,
                          matched_source |-> source_numbers[MinOf(Hits)],
                          context        |-> ShortContext(claim.context)])]
    ELSE [res EXCEPT !.unverified = @ + 1,
                     !.errors = Append(@,
                         [display_value |-> claim.display_value,
                          raw_number    |-> claim.raw_number,
                          context       |-> ShortContext(claim.context),
                          message       |-> "Number not found in source data"])]
ValidateOne(res, claim, source_numbers) ==
    ValidateHits(res, claim, source_numbers,
        {k \in DOMAIN source_numbers : WithinTolerance(claim.raw_number, source_numbers[k])})

RECURSIVE ValidateLoop(_, _, _)
ValidateLoop(res, claims, source_numbers) ==
    IF claims = <<>> THEN res
    ELSE ValidateLoop(ValidateOne(res, Head(claims), source_numbers), Tail(claims), source_numbers)

\* validation_results["success_rate"] > 0.7, the rate an exact fraction
RateThresholdNum == 7
RateThresholdDen == 10
\* the comparison with >= in place of >
RateAtLeast(rate) == rate.num * RateThresholdDen >= RateThresholdNum * rate.den
RateAbove(rate) == rate.num * RateThresholdDen > RateThresholdNum * rate.den

\* the two keys that the code sets after the loop
SuccessRate(res) ==
    IF res.total_claims > 0 THEN [num |-> res.verified, den |-> res.total_claims]
    ELSE [num |-> 0, den |-> 1]
WithRate(res) ==
    [k \in DOMAIN res \cup {"success_rate", "valid"} |->
        IF k = "success_rate" THEN SuccessRate(res)
        ELSE IF k = "valid" THEN RateAbove(SuccessRate(res))
        ELSE res[k]]

validation_results(claims) ==
    [total_claims |-> Len(claims), verified |-> 0, unverified |-> 0,
     errors |-> <<>>, warnings |-> <<>>, verified_claims |-> <<>>]

validate_claims(claims, source_data) ==
    IF claims = <<>> THEN validation_results(claims)
    ELSE WithRate(ValidateLoop(validation_results(claims), claims, _extract_source_numbers(source_data)))

(***************************************************************************)
(* The question classifier.                                                *)
(***************************************************************************)
\* \b between positions i - 1 and i
WordBoundary(q, i) == IsWordChar(CharAt(q, i - 1)) # IsWordChar(CharAt(q, i))

\* the search without the \b on either side
PatternFoundAnywhere(synonyms, q) == \E k \in DOMAIN synonyms : Contains(q, synonyms[k])
\* re.search(r"\b(s1|s2|...)\b", q)
PatternFound(synonyms, q) ==
    \E k \in DOMAIN synonyms : \E i \in 1..Len(q) :
        /\ OccursAt(synonyms[k], q, i)
        /\ WordBoundary(q, i)
        /\ WordBoundary(q, i + Len(synonyms[k]))

NoMetric == "None"

\* extract_metric_from_question: the first metric of the table whose pattern is found
FirstMetric(table, Found) == IF Found = {} THEN NoMetric ELSE table[MinOf(Found)].metric
extract_metric_from_question(table, question) ==
    FirstMetric(table, {k \in DOMAIN table : PatternFound(table[k].synonyms, Lower(question))})

\* extract_channel_name: the name of the first entity whose name or id occurs
\* in the question; <<>> stands for None
FirstChannelName(channels, Found) == IF Found = {} THEN <<>> ELSE channels[MinOf(Found)].name
extract_channel_name(question, source_data) ==
    FirstChannelName(GetChannels(source_data),
        {k \in DOMAIN GetChannels(source_data) :
            \/ Contains(Lower(question), Lower(GetChannels(source_data)[k].name))
            \/ Contains(Lower(question), Lower(GetChannels(source_data)[k].id))})

\* query_source_data: the metric of the first entity whose name or id is
\* channel_name, letter case ignored; found = FALSE stands for None
NotFound == [found |-> FALSE, v |-> 0]
FieldOf(channel, metric) ==
    IF HasField(channel, metric) THEN [found |-> TRUE, v |-> channel.metrics[metric]] ELSE NotFound
FirstChannelField(channels, metric, Found) ==
    IF Found = {} THEN NotFound ELSE FieldOf(channels[MinOf(Found)], metric)
query_source_data(metric, channel_name, source_data) ==
    FirstChannelField(GetChannels(source_data), metric,
        {k \in DOMAIN GetChannels(source_data) :
            /\ channel_name # <<>>
            /\ \/ Lower(GetChannels(source_data)[k].name) = Lower(channel_name)
               \/ Lower(GetChannels(source_data)[k].id) = Lower(channel_name)})

(***************************************************************************)
(* validate_specific_query                                                 *)
(***************************************************************************)
\* abs(num - true_value) < 0.01
ResponseTolerance == Scale \div 100
\* the comparison with <= in place of <
NearValueInclusive(num, true_value) == Abs(num - true_value) <= ResponseTolerance
NearValue(num, true_value) == Abs(num - true_value) < ResponseTolerance

ReasonNotIdentified == "Could not identify specific metric or channel"
ReasonNotInSource == "Could not find metric in source data"

SpecificFound(target_metric, channel_name, true_value, numbers_in_response) ==
    [specific_validation |-> TRUE,
     metric              |-> target_metric,
     channel             |-> channel_name,
     true_value          |-> true_value,
     found_in_response   |-> \E k \in DOMAIN numbers_in_response : NearValue(numbers_in_response[k], true_value),
     numbers_in_response |-> numbers_in_response]
SpecificValue(target_metric, channel_name, ai_response, true_value) ==
    IF ~true_value.found THEN [specific_validation |-> FALSE, reason |-> ReasonNotInSource]
    ELSE SpecificFound(target_metric, channel_name, true_value.v, FindNumbers(ai_response))
SpecificTarget(target_metric, channel_name, ai_response, source_data) ==
    IF target_metric = NoMetric \/ channel_name = <<>>
    THEN [specific_validation |-> FALSE, reason |-> ReasonNotIdentified]
    ELSE SpecificValue(target_metric, channel_name, ai_response,
                       query_source_data(target_metric, channel_name, source_data))
validate_specific_query(table, user_question, ai_response, channel_name, source_data) ==
    SpecificTarget(extract_metric_from_question(table, user_question),
                   IF channel_name = <<>> THEN extract_channel_name(user_question, source_data) ELSE channel_name,
                   ai_response, source_data)

(***************************************************************************)
(* validate_ranking                                                        *)
(***************************************************************************)
\* x.get(ranking_metric, 0)
SortKey(channel, ranking_metric) ==
    IF HasField(channel, ranking_metric) THEN channel.metrics[ranking_metric] ELSE 0

\* a sort that is not stable: entities of equal key in reverse order
PlaceLastOnTie(channels, ranking_metric, i) ==
    1 + Cardinality({j \in DOMAIN channels :
            \/ SortKey(channels[j], ranking_metric) > SortKey(channels[i], ranking_metric)
            \/ (j > i /\ SortKey(channels[j], ranking_metric) = SortKey(channels[i], ranking_metric))})
Place(channels, ranking_metric, i) ==
    1 + Cardinality({j \in DOMAIN channels :
            \/ SortKey(channels[j], ranking_metric) > SortKey(channels[i], ranking_metric)
            \/ (j < i /\ SortKey(channels[j], ranking_metric) = SortKey(channels[i], ranking_metric))})
SortedDescending(channels, ranking_metric) ==
    [p \in 1..Len(channels) |->
        channels[CHOOSE i \in DOMAIN channels : Place(channels, ranking_metric, i) = p]]

NamesOf(channels) == [k \in 1..Len(channels) |-> channels[k].name]

\* the names of the entities whose lower-cased name occurs in the lower-cased response
IsMentioned(channel, ai_response) == Contains(Lower(ai_response), Lower(channel.name))
MentionedChannels(ai_response, source_data) ==
    NamesOf(SelectSeq(GetChannels(source_data), LAMBDA ch : IsMentioned(ch, ai_response)))

PlausibleOverlap == 3
TopShown == 5

RankingOverlap(ranking_metric, ai_list, truly_top_names, overlap) ==
    [validation_type       |-> "ranking",
     metric                |-> ranking_metric,
     ai_mentioned_channels |-> ai_list,
     true_top_5_channels   |-> Slice(truly_top_names, 1, Min(TopShown, Len(truly_top_names))),
     overlap_count         |-> Cardinality(overlap),
     is_plausible          |-> Cardinality(overlap) >= PlausibleOverlap]
RankingCompare(ranking_metric, ai_list, truly_top_names) ==
    RankingOverlap(ranking_metric, ai_list, truly_top_names,
        Range(ai_list) \cap Range(Slice(truly_top_names, 1, Min(Len(ai_list), Len(truly_top_names)))))
validate_ranking(ai_response, ranking_metric, source_data) ==
    RankingCompare(ranking_metric, MentionedChannels(ai_response, source_data),
                   NamesOf(SortedDescending(GetChannels(source_data), ranking_metric)))

(***************************************************************************)
(* validate_adaptive and validate_response                                 *)
(***************************************************************************)
\* the tokens of ranking_metrics: the text looked for in the question and the
\* field of the entity records that it names
ranking_metrics ==
    <<[token |-> <<"r", "o", "i">>, field |-> "roi"],
      [token |-> <<"m", "r", "o", "i">>, field |-> "mroi"],
      [token |-> <<"c", "o", "n", "t", "r", "i", "b", "u", "t", "i", "o", "n", "_", "p", "c", "t">>,
       field |-> "contribution_pct"],
      [token |-> <<"s", "p", "e", "n", "d">>, field |-> "spend"]>>
ranking_words == {<<"t", "o", "p">>, <<"b", "e", "s", "t">>, <<"w", "o", "r", "s", "t">>,
                  <<"l", "o", "w", "e", "s", "t">>}

\* key in result
HasKey(r, k) == k \in DOMAIN r
\* result[key] = value
WithKey(r, key, value) == [k \in DOMAIN r \cup {key} |-> IF k = key THEN value ELSE r[k]]

\* any(word in user_question.lower() for word in ["top", "best", "worst", "lowest"])
AnyRankingWord(user_question) == \E w \in ranking_words : Contains(Lower(user_question), w)

\* the condition without the test of the ranking words
TokenCondition(user_question, k) == Contains(Lower(user_question), ranking_metrics[k].token)
\* the condition of the loop over ranking_metrics, for the k-th metric
RankingCondition(user_question, k) ==
    Contains(Lower(user_question), ranking_metrics[k].token) \/ AnyRankingWord(user_question)

AdaptiveRanking(ai_response, source_data, Hit) ==
    WithKey(validate_ranking(ai_response, ranking_metrics[MinOf(Hit)].field, source_data),
            "strategy", "ranking")
AdaptiveGeneral(ai_response, source_data) ==
    WithKey(validate_claims(extract_numerical_claims(ai_response), source_data), "strategy", "general_fact_check")
AdaptiveLoop(ai_response, source_data, Hit) ==
    IF Hit # {} THEN AdaptiveRanking(ai_response, source_data, Hit)
    ELSE AdaptiveGeneral(ai_response, source_data)
validate_adaptive(table, ai_response, source_data, user_question, channel_name) ==
    IF extract_metric_from_question(table, user_question) # NoMetric
    THEN WithKey(validate_specific_query(table, user_question, ai_response, channel_name, source_data),
                 "strategy", "specific_metric")
    ELSE AdaptiveLoop(ai_response, source_data,
                      {k \in DOMAIN ranking_metrics : RankingCondition(user_question, k)})

\* what a call leaves in result: the value returned or the exception raised
NoCall == [op |-> "none"]
NoResult == [status |-> "none"]
Returned(value) == [status |-> "returned", value |-> value]
Raised(error) == [status |-> "raised", error |-> error]

\* adaptive_result.get("valid", False)
GetValidDefaultFalse(adaptive_result) == IF HasKey(adaptive_result, "valid") THEN adaptive_result.valid ELSE FALSE
\* is_plausible or found_in_response taken as the verdict of a result without valid
GetValidVerdict(adaptive_result) ==
    IF HasKey(adaptive_result, "valid") THEN adaptive_result.valid
    ELSE IF HasKey(adaptive_result, "is_plausible") THEN adaptive_result.is_plausible
    ELSE IF HasKey(adaptive_result, "found_in_response") THEN adaptive_result.found_in_response
    ELSE TRUE
\* adaptive_result.get("valid", True)
GetValid(adaptive_result) == IF HasKey(adaptive_result, "valid") THEN adaptive_result.valid ELSE TRUE

\* the report, or the KeyError of general_validation["valid"]
Combine(adaptive_result, general_validation) ==
    IF ~HasKey(general_validation, "valid") THEN Raised("KeyError: 'valid'")
    ELSE Returned([adaptive_validation |-> adaptive_result,
                   general_validation  |-> general_validation,
                   overall_valid       |-> general_validation.valid /\ GetValid(adaptive_result)])
validate_response(table, ai_response, source_data, user_question, channel_name) ==
    Combine(validate_adaptive(table, ai_response, source_data, user_question, channel_name),
            validate_claims(extract_numerical_claims(ai_response), source_data))

(***************************************************************************)
(* AIAnalyst (AI.py).  data is the content of model_output.json, a dataset *)
(* with the key `channels`; the context built by load_data has the key     *)
(* `channel`, which holds one entity record (single) or the entity list.   *)
(***************************************************************************)
\* next((c for c in data["channels"] if ...), None) for a channel_name that is given
FilteredChannel(data, Found) ==
    IF Found = {} THEN [single |-> FALSE, items |-> data.channels]
    ELSE [single |-> TRUE, items |-> <<data.channels[MinOf(Found)]>>]
load_data(data, channel_name) ==
    [meta         |-> data.meta,
     has_channels |-> FALSE,
     channels     |-> <<>>,
     channel      |-> IF channel_name = <<>> THEN [single |-> FALSE, items |-> data.channels]
                      ELSE FilteredChannel(data, {k \in DOMAIN data.channels :
                               \/ Lower(data.channels[k].name) = Lower(channel_name)
                               \/ data.channels[k].id = Lower(channel_name)})]

\* what ask returns: the response text, with the validation note and its
\* error count when overall_valid is false; or the exception of validate_response
AskReturn(response_text, validation) ==
    IF validation.status = "raised" THEN validation
    ELSE Returned([response_text |-> response_text,
                   note |-> IF validation.value.overall_valid THEN <<>>
                            ELSE <<Len(validation.value.general_validation.errors)>>])
ask(table, data, user_question, channel_name, response_text) ==
    AskReturn(response_text,
              validate_response(table, response_text, load_data(data, channel_name), user_question, channel_name))

(***************************************************************************)
(* The inputs of the operations, drawn from bounded sets.                  *)
(***************************************************************************)
\* the decimal ip.fp, fp the four digits after the point
Num(ip, fp) == ip * Scale + fp * (Scale \div 10000)

Tx_A        == <<"A">>
Tx_B        == <<"B">>
Tx_C        == <<"C">>
Tx_Dd       == <<"D", "d">>
Tx_Facebook == <<"F", "a", "c", "e", "b", "o", "o", "k">>

chA == [name |-> Tx_A, id |-> <<"a", "1">>,
        metrics |-> [k \in {"roi", "spend"} |-> IF k = "roi" THEN Num(5, 0) ELSE Num(1200, 0)]]
chB == [name |-> Tx_B, id |-> <<"b">>,
        metrics |-> [k \in {"roi", "mroi", "contribution_pct"} |->
                        IF k = "roi" THEN Num(3, 0) ELSE IF k = "mroi" THEN Num(3, 8) ELSE Num(0, 2700)]]
chC == [name |-> Tx_C, id |-> <<"c">>,
        metrics |-> [k \in {"roi", "spend"} |-> IF k = "roi" THEN Num(1, 0) ELSE Num(0, 10)]]
chD == [name |-> Tx_Dd, id |-> <<"d">>,
        metrics |-> [k \in {"roi", "mroi"} |-> IF k = "roi" THEN Num(3, 0) ELSE Num(2, 0)]]
chF == [name |-> Tx_Facebook, id |-> <<"f", "b">>,
        metrics |-> [k \in {"roi", "spend"} |-> IF k = "roi" THEN Num(3, 4700) ELSE Num(1200, 0)]]

EntityPool == {chA, chB, chC, chD, chF}

\* model_version "v1.2" and the diagnostics 0.93456, 0 and -0.5
MetaLeaves == <<[kind |-> "str", v |-> 0, s |-> <<"v", "1", ".", "2">>],
                [kind |-> "num", v |-> Num(0, 9345) + 6 * (Scale \div 100000), s |-> <<>>],
                [kind |-> "num", v |-> 0, s |-> <<>>],
                [kind |-> "num", v |-> 0 - Num(0, 5000), s |-> <<>>]>>

\* the entity lists: up to MaxChannels entities of the pool, each at most once
ChannelLists ==
    UNION {{cs \in [1..n -> EntityPool] : \A i, j \in 1..n : i # j => cs[i] # cs[j]} : n \in 0..MaxChannels}

Datasets ==
    {[meta |-> m, has_channels |-> TRUE, channels |-> cs] : m \in {<<>>, MetaLeaves}, cs \in ChannelLists}
    \cup {[meta |-> MetaLeaves, has_channels |-> FALSE, channels |-> <<>>]}

\* a few datasets for the operations that have other inputs to vary
SomeDatasets ==
    {[meta |-> MetaLeaves, has_channels |-> FALSE, channels |-> <<>>],
     [meta |-> <<>>, has_channels |-> TRUE, channels |-> <<>>],
     [meta |-> MetaLeaves, has_channels |-> TRUE, channels |-> <<chA, chB, chC>>],
     [meta |-> <<>>, has_channels |-> TRUE, channels |-> <<chF, chD, chB, chA>>],
     [meta |-> <<>>, has_channels |-> TRUE, channels |-> <<chC>>]}

\* the response texts of the claim extractor: up to MaxFrags fragments
Pad == [i \in 1..85 |-> "x"]
Fragments ==
    {<<"$", "1", ",", "2", "0", "0">>, <<"$">>, <<"2", "7", "%">>, <<"2", "7">>,
     <<"1", ".", "5", " ">>, <<"1", ".", "5", "0">>, <<"R", "O", "I", " ", "i", "s", " ">>,
     <<"s", "a", "t", "u", "r", "a", "t", "e", "d", " ">>, <<",">>, Pad}

\* no number of a text has more than MaxDigits digits, so that every value
\* in units of 1/Scale stays below 2^31
MaxDigits == 9 - ScaleDigits
DigitsBounded(t) ==
    \A i \in DOMAIN t :
        Cardinality({k \in i..RunEnd(t, i, CurrencyChars) : IsDigit(t[k])}) <= MaxDigits

Texts ==
    {t \in UNION {{Concat(fs) : fs \in [1..n -> Fragments]} : n \in 0..MaxFrags} : DigitsBounded(t)}

\* the claim lists of validate_claims: the claims of a few one-claim texts, in
\* lists of up to two, and lists of up to MaxClaims claims of which the first
\* k are 3.0005 and the others 3.002
ClaimTexts ==
    {<<"3", ".", "0", "0", "0", "5">>, <<"3", ".", "0", "0", "2">>, <<"2", "7", "%">>,
     <<"0", ".", "0", "0", "2">>, <<"$", "1", ",", "2", "0", "0">>}
ClaimPool == {extract_numerical_claims(t)[1] : t \in ClaimTexts}
claimNear == CHOOSE c \in ClaimPool : c.display_value = <<"3", ".", "0", "0", "0", "5">>
claimFar  == CHOOSE c \in ClaimPool : c.display_value = <<"3", ".", "0", "0", "2">>
MaxShortList == 2
ClaimLists ==
    UNION {[1..n -> ClaimPool] : n \in 0..MaxShortList}
    \cup {[i \in 1..n |-> IF i <= k THEN claimNear ELSE claimFar] : n \in 1..MaxClaims, k \in 0..MaxClaims}

\* the words of the questions
W_ROI == <<"R", "O", "I">>
W_mroi == <<"m", "r", "o", "i">>
W_heroic == <<"h", "e", "r", "o", "i", "c">>
W_spending == <<"s", "p", "e", "n", "d", "i", "n", "g">>
W_contribution_pct == <<"c", "o", "n", "t", "r", "i", "b", "u", "t", "i", "o", "n", "_", "p", "c", "t">>
W_Top == <<"T", "o", "p">>
W_best == <<"b", "e", "s", "t">>
W_worst == <<"w", "o", "r", "s", "t">>
W_lowest == <<"l", "o", "w", "e", "s", "t">>
W_what == <<"w", "h", "a", "t">>
W_Facebooks == <<"F", "a", "c", "e", "b", "o", "o", "k", "'", "s">>
W_fb == <<"f", "b">>
W_share == <<"s", "h", "a", "r", "e">>

JoinWords(ws) == Concat([k \in 1..Len(ws) |-> IF k = 1 THEN ws[k] ELSE <<" ">> \o ws[k]])
\* the questions of up to MaxQWords words of W
Phrases(W) == UNION {{JoinWords(ws) : ws \in [1..n -> W]} : n \in 0..MaxQWords}

StrategyWords == {W_ROI, W_mroi, W_spending, W_contribution_pct, W_Top, W_best, W_worst,
                  W_lowest, W_what}
SpecificWords == {W_ROI, W_mroi, W_Facebooks, W_fb, W_share}
StrategyQuestions == Phrases(StrategyWords)
SpecificQuestions == Phrases(SpecificWords)

\* the questions of the classifier: synonyms of several metrics, synonyms of
\* more than one word, and metric names inside longer words
W_marginal == <<"m", "a", "r", "g", "i", "n", "a", "l">>
W_return_on == <<"R", "e", "t", "u", "r", "n", " ", "o", "n">>
W_investment == <<"i", "n", "v", "e", "s", "t", "m", "e", "n", "t">>
W_value == <<"v", "a", "l", "u", "e", "?">>
ClassifierWords == {W_ROI, W_mroi, W_heroic, W_spending, W_contribution_pct, W_share, W_what,
                    W_marginal, W_return_on, W_investment, W_value}
ClassifierQuestions == Phrases(ClassifierWords)

\* the response texts of the validators
R_scenario == <<"F", "a", "c", "e", "b", "o", "o", "k", "'", "s", " ", "R", "O", "I", " ", "i", "s", " ", "3", ".", "4", "7">>
R_plain == <<"n", "o", " ", "n", "u", "m", "b", "e", "r", "s">>
R_names == <<"A", " ", "a", "n", "d", " ", "B", " ", "a", "r", "e", " ", "b", "e", "s", "t">>
R_mostly == <<"B", ":", " ", "R", "O", "I", " ", "3", ".", "0", ",", " ", "2", "7", "%", ",", " ", "C", " ", "1", ".", "0", "1">>
R_half == <<"a", "b", "o", "u", "t", " ", "3", ".", "5", " ", "o", "r", " ", "1", "2", "0", "0">>
R_abc == <<"a", ",", " ", "b", ",", " ", "c">>
R_cdb == <<"C", ",", " ", "D", "d", ",", " ", "B">>
R_facebook == <<"F", "a", "c", "e", "b", "o", "o", "k">>
R_dd == <<"D", "d">>
R_none == <<"n", "o", "n", "e">>

SomeResponses == {R_scenario, R_plain, R_mostly, R_half}
AdaptiveResponses == {R_plain, R_names, R_mostly}
ReportResponses == {R_plain, R_mostly, R_half}
RankingResponses == {R_names, R_abc, R_cdb, R_facebook, R_dd, R_none}

\* the entity hints: none, an id, a name in another letter case, no entity's name
H_fb == <<"f", "b">>
H_FACEBOOK == <<"F", "A", "C", "E", "B", "O", "O", "K">>
H_Zed == <<"Z", "e", "d">>
H_c == <<"c">>

NoHint == <<>>
SpecificHints == {NoHint, H_fb, H_FACEBOOK, H_Zed, H_c}
SomeHints == {NoHint, H_fb}

TwoDatasets ==
    {[meta |-> MetaLeaves, has_channels |-> FALSE, channels |-> <<>>],
     [meta |-> MetaLeaves, has_channels |-> TRUE, channels |-> <<chA, chB, chC>>]}

RankingFields == {ranking_metrics[k].field : k \in DOMAIN ranking_metrics}

\* the inputs of ask: the loaded file, the question and the text the language model answers
AskData == {[meta |-> MetaLeaves, has_channels |-> TRUE, channels |-> cs] :
               cs \in {<<>>, <<chA, chB, chC>>, <<chF, chD, chB, chA>>}}
AskQuestions == {<<>>, W_ROI, W_Top, W_what}
AskResponses == {R_scenario, R_plain, R_half, R_mostly}

(***************************************************************************)
(* The state machine: one call of the validator at a time.  pc = "idle":   *)
(* no call is running; an operation's action is the whole call, leaving    *)
(* its arguments in call and what it returned in result; Return hands the  *)
(* result to the caller.  metric_patterns is the table set by __init__.    *)
(***************************************************************************)
MetricPatterns ==
    <<[metric |-> "roi",
       synonyms |-> <<<<"r", "o", "i">>,
                      <<"r", "e", "t", "u", "r", "n", " ", "o", "n", " ", "i", "n", "v", "e", "s", "t", "m", "e", "n", "t">>,
                      <<"r", "e", "t", "u", "r", "n", " ", "o", "n", " ", "a", "d", " ", "s", "p", "e", "n", "d">> >>],
      [metric |-> "mroi",
       synonyms |-> <<<<"m", "a", "r", "g", "i", "n", "a", "l", " ", "r", "o", "i">>,
                      <<"m", "r", "o", "i">>,
                      <<"i", "n", "c", "r", "e", "m", "e", "n", "t", "a", "l", " ", "r", "o", "i">> >>],
      [metric |-> "contribution",
       synonyms |-> <<<<"c", "o", "n", "t", "r", "i", "b", "u", "t", "i", "o", "n">>,
                      <<"p", "e", "r", "c", "e", "n", "t", " ", "c", "o", "n", "t", "r", "i", "b", "u", "t", "i", "o", "n">>,
                      <<"c", "o", "n", "t", "r", "i", "b", "u", "t", "e", "d">>,
                      <<"s", "h", "a", "r", "e">> >>],
      [metric |-> "spend",
       synonyms |-> <<<<"s", "p", "e", "n", "d">>,
                      <<"i", "n", "v", "e", "s", "t", "m", "e", "n", "t">>,
                      <<"c", "o", "s", "t">>,
                      <<"b", "u", "d", "g", "e", "t">> >>],
      [metric |-> "revenue",
       synonyms |-> <<<<"r", "e", "v", "e", "n", "u", "e">>,
                      <<"i", "n", "c", "r", "e", "m", "e", "n", "t", "a", "l", " ", "r", "e", "v", "e", "n", "u", "e">>,
                      <<"v", "a", "l", "u", "e">> >>]>>


Init ==
    /\ pc = "idle"
    /\ call = NoCall
    /\ result = NoResult
    /\ metric_patterns = MetricPatterns

ExtractNumericalClaims ==
    /\ pc = "idle"
    /\ \E text \in Texts :
        /\ call' = [op |-> "extract_numerical_claims", text |-> text]
        /\ result' = Returned(extract_numerical_claims(text))
    /\ pc' = "done"
    /\ UNCHANGED metric_patterns

ExtractMetricFromQuestion ==
    /\ pc = "idle"
    /\ \E question \in ClassifierQuestions :
        /\ call' = [op |-> "extract_metric_from_question", question |-> question]
        /\ result' = Returned(extract_metric_from_question(metric_patterns, question))
    /\ pc' = "done"
    /\ UNCHANGED metric_patterns

ExtractSourceNumbers ==
    /\ pc = "idle"
    /\ \E source_data \in Datasets :
        /\ call' = [op |-> "_extract_source_numbers", source_data |-> source_data]
        /\ result' = Returned(_extract_source_numbers(source_data))
    /\ pc' = "done"
    /\ UNCHANGED metric_patterns

ValidateClaims ==
    /\ pc = "idle"
    /\ \E claims \in ClaimLists, source_data \in SomeDatasets :
        /\ call' = [op |-> "validate_claims", claims |-> claims, source_data |-> source_data]
        /\ result' = Returned(validate_claims(claims, source_data))
    /\ pc' = "done"
    /\ UNCHANGED metric_patterns

ValidateSpecificQuery ==
    /\ pc = "idle"
    /\ \E user_question \in SpecificQuestions, ai_response \in SomeResponses,
          channel_name \in SpecificHints, source_data \in SomeDatasets :
        /\ call' = [op |-> "validate_specific_query", user_question |-> user_question,
                    ai_response |-> ai_response, channel_name |-> channel_name, source_data |-> source_data]
        /\ result' = Returned(validate_specific_query(metric_patterns, user_question, ai_response,
                                                      channel_name, source_data))
    /\ pc' = "done"
    /\ UNCHANGED metric_patterns

ValidateRanking ==
    /\ pc = "idle"
    /\ \E ai_response \in RankingResponses, ranking_metric \in RankingFields, source_data \in Datasets :
        /\ call' = [op |-> "validate_ranking", ai_response |-> ai_response,
                    ranking_metric |-> ranking_metric, source_data |-> source_data]
        /\ result' = Returned(validate_ranking(ai_response, ranking_metric, source_data))
    /\ pc' = "done"
    /\ UNCHANGED metric_patterns

ValidateAdaptive ==
    /\ pc = "idle"
    /\ \E user_question \in StrategyQuestions, ai_response \in AdaptiveResponses,
          channel_name \in SomeHints, source_data \in TwoDatasets :
        /\ call' = [op |-> "validate_adaptive", user_question |-> user_question,
                    ai_response |-> ai_response, channel_name |-> channel_name, source_data |-> source_data]
        /\ result' = Returned(validate_adaptive(metric_patterns, ai_response, source_data,
                                                user_question, channel_name))
    /\ pc' = "done"
    /\ UNCHANGED metric_patterns

ValidateResponse ==
    /\ pc = "idle"
    /\ \E user_question \in StrategyQuestions, ai_response \in ReportResponses,
          channel_name \in SomeHints, source_data \in TwoDatasets :
        /\ call' = [op |-> "validate_response", user_question |-> user_question,
                    ai_response |-> ai_response, channel_name |-> channel_name, source_data |-> source_data]
        /\ result' = validate_response(metric_patterns, ai_response, source_data, user_question, channel_name)
    /\ pc' = "done"
    /\ UNCHANGED metric_patterns

\* ask: context is the dataset that ask hands to validate_response
Ask ==
    /\ pc = "idle"
    /\ \E data \in AskData, user_question \in AskQuestions, channel_name \in SpecificHints,
          response_text \in AskResponses :
        /\ call' = [op |-> "ask", data |-> data, user_question |-> user_question,
                    channel_name |-> channel_name, response_text |-> response_text,
                    context |-> load_data(data, channel_name)]
        /\ result' = ask(metric_patterns, data, user_question, channel_name, response_text)
    /\ pc' = "done"
    /\ UNCHANGED metric_patterns

Return ==
    /\ pc = "done"
    /\ pc' = "idle"
    /\ call' = NoCall
    /\ result' = NoResult
    /\ UNCHANGED metric_patterns

Next ==
    \/ ExtractNumericalClaims
    \/ ExtractMetricFromQuestion
    \/ ExtractSourceNumbers
    \/ ValidateClaims
    \/ ValidateSpecificQuery
    \/ ValidateRanking
    \/ ValidateAdaptive
    \/ ValidateResponse
    \/ Ask
    \/ Return

Spec == Init /\ [][Next]_vars

(***************************************************************************)
(* Properties.                                                             *)
(***************************************************************************)
Called(op) == pc = "done" /\ call.op = op

\* the matches of a pattern in a text whose number parses to the value v
MatchesOfValue(claim_type, t, v) ==
    {m \in Range(FindIter(claim_type, t, 1)) :
        /\ ParseFloat(CleanNumber(Slice(t, m.ns, m.ne))).ok
        /\ ParseFloat(CleanNumber(Slice(t, m.ns, m.ne))).v = v}
FirstMatchOfValue(claim_type, t, v) ==
    CHOOSE m \in MatchesOfValue(claim_type, t, v) : \A n \in MatchesOfValue(claim_type, t, v) : m.s <= n.s

\* C2: validate_claims with an empty claim list returns total_claims = 0,
\* success_rate = 0.0 and valid = false (the two keys are present).
C2_EmptyListHasRateAndValid ==
    (Called("validate_claims") /\ call.claims = <<>>) =>
        /\ result.status = "returned"
        /\ result.value.total_claims = 0
        /\ HasKey(result.value, "success_rate")
        /\ HasKey(result.value, "valid")
        /\ result.value.success_rate.num = 0
        /\ result.value.valid = FALSE

\* C6: the claims that extract_numerical_claims returns have pairwise different
\* keys (raw_number, claim_type), and each claim is the first match of its
\* pattern with its value: it carries that match's position, text and context.
C6_NoDuplicateKeysFirstWins ==
    Called("extract_numerical_claims") =>
        /\ \A i, j \in DOMAIN result.value :
              i # j => <<result.value[i].raw_number, result.value[i].claim_type>>
                       # <<result.value[j].raw_number, result.value[j].claim_type>>
        /\ \A i \in DOMAIN result.value :
              LET c == result.value[i]
                  m == FirstMatchOfValue(c.claim_type, call.text, c.raw_number)
              IN  /\ MatchesOfValue(c.claim_type, call.text, c.raw_number) # {}
                  /\ c.position = m.s - 1
                  /\ c.display_value = Slice(call.text, m.s, m.e)
                  /\ c.context = ContextOf(call.text, m)

\* a text where one pattern matches the same value twice, with different
\* context windows, and one claim is kept for it
C6_Witness ==
    /\ Called("extract_numerical_claims")
    /\ \E c \in Range(result.value) :
          \E m1, m2 \in MatchesOfValue(c.claim_type, call.text, c.raw_number) :
              /\ m1.s < m2.s
              /\ ContextOf(call.text, m1) # ContextOf(call.text, m2)
              /\ c.position = m1.s - 1

\* C7: for a non-empty claim list, verified + unverified = total_claims and
\* valid holds iff verified / total_claims > 0.7 (7 of 10: not valid; 8 of 10: valid).
C7_CountsAndStrictThreshold ==
    (Called("validate_claims") /\ call.claims # <<>>) =>
        /\ result.value.total_claims = Len(call.claims)
        /\ result.value.verified + result.value.unverified = result.value.total_claims
        /\ result.value.valid = (10 * result.value.verified > 7 * result.value.total_claims)
        /\ (result.value.total_claims = 10 /\ result.value.verified = 7 => result.value.valid = FALSE)
        /\ (result.value.total_claims = 10 /\ result.value.verified = 8 => result.value.valid = TRUE)

C7_Witness ==
    /\ Called("validate_claims")
    /\ Len(call.claims) = 10
    /\ result.value.verified = 7
    /\ result.value.valid = FALSE

\* what validate_claims is to record for a claim list against the source numbers src
NearSources(claim, src) == {k \in DOMAIN src : Abs(claim.raw_number - src[k]) < Scale \div 1000}
IsNear(claim, src) == NearSources(claim, src) # {}
RECURSIVE ExpectedVerified(_, _)
ExpectedVerified(claims, src) ==
    IF claims = <<>> THEN <<>>
    ELSE (IF IsNear(Head(claims), src)
          THEN <<<<Head(claims).raw_number, src[MinOf(NearSources(Head(claims), src))]>>>>
          ELSE <<>>)
         \o ExpectedVerified(Tail(claims), src)
RECURSIVE ExpectedErrors(_, _)
ExpectedErrors(claims, src) ==
    IF claims = <<>> THEN <<>>
    ELSE (IF IsNear(Head(claims), src) THEN <<>> ELSE <<Head(claims).raw_number>>)
         \o ExpectedErrors(Tail(claims), src)
VerifiedPairs(res) ==
    [k \in DOMAIN res.verified_claims |-> <<res.verified_claims[k].raw_number, res.verified_claims[k].matched_source>>]
ErrorNumbers(res) == [k \in DOMAIN res.errors |-> res.errors[k].raw_number]
C8_Holds(claims, src, res) ==
    /\ VerifiedPairs(res) = ExpectedVerified(claims, src)
    /\ ErrorNumbers(res) = ExpectedErrors(claims, src)

\* C8: a claim is in verified_claims, once and with the first matching source
\* value, iff a value of the flattened source bag differs from its raw_number by
\* less than 0.001, and in errors otherwise.
C8_VerifiedIffWithinTolerance ==
    (Called("validate_claims") /\ call.claims # <<>>) =>
        C8_Holds(call.claims, _extract_source_numbers(call.source_data), result.value)

\* 3.0005 verified against the source value 3.0 and 3.002 recorded as an error
C8_Witness ==
    /\ Called("validate_claims")
    /\ \E k \in DOMAIN result.value.verified_claims :
          /\ result.value.verified_claims[k].raw_number = Num(3, 5)
          /\ result.value.verified_claims[k].matched_source = Num(3, 0)
    /\ \E k \in DOMAIN result.value.errors : result.value.errors[k].raw_number = Num(3, 20)

\* C1: validate_response returns a report with the fields adaptive_validation,
\* general_validation and overall_valid and never raises, whatever the response
\* text, the question, the entity hint and the dataset.
C1_ReportNeverRaises ==
    Called("validate_response") =>
        /\ result.status = "returned"
        /\ HasKey(result.value, "adaptive_validation")
        /\ HasKey(result.value, "general_validation")
        /\ HasKey(result.value, "overall_valid")

\* an adaptive result that is inconclusive: specific_validation = false with a reason
Inconclusive(adaptive) ==
    /\ HasKey(adaptive, "specific_validation")
    /\ adaptive.specific_validation = FALSE
    /\ HasKey(adaptive, "reason")

\* C3: in a report of validate_response, overall_valid = general_validation.valid
\* AND (adaptive_validation.valid if that field is present, else true); an
\* inconclusive adaptive result does not make overall_valid false when
\* general_validation.valid is true.
C3_OverallValid ==
    (Called("validate_response") /\ result.status = "returned") =>
        /\ result.value.overall_valid =
              (/\ result.value.general_validation.valid
               /\ ("valid" \in DOMAIN result.value.adaptive_validation
                      => result.value.adaptive_validation.valid))
        /\ (Inconclusive(result.value.adaptive_validation) /\ result.value.general_validation.valid
               => result.value.overall_valid)

C3_Witness ==
    /\ Called("validate_response")
    /\ result.status = "returned"
    /\ Inconclusive(result.value.adaptive_validation)
    /\ result.value.general_validation.valid
    /\ result.value.overall_valid

\* the ranking tokens and words as the claims list them
ClaimTokens == <<<<"r", "o", "i">>, <<"m", "r", "o", "i">>,
                 <<"c", "o", "n", "t", "r", "i", "b", "u", "t", "i", "o", "n", "_", "p", "c", "t">>,
                 <<"s", "p", "e", "n", "d">> >>
ClaimFields == <<"roi", "mroi", "contribution_pct", "spend">>
ClaimWords == {<<"t", "o", "p">>, <<"b", "e", "s", "t">>, <<"w", "o", "r", "s", "t">>,
               <<"l", "o", "w", "e", "s", "t">>}
TokensIn(q) == {k \in DOMAIN ClaimTokens : Contains(Lower(q), ClaimTokens[k])}
HasClaimWord(q) == \E w \in ClaimWords : Contains(Lower(q), w)
ClaimedStrategy(table, q) ==
    IF extract_metric_from_question(table, q) # NoMetric THEN "specific_metric"
    ELSE IF TokensIn(q) # {} \/ HasClaimWord(q) THEN "ranking"
    ELSE "general_fact_check"
ClaimedRankingMetric(q) == IF TokensIn(q) # {} THEN ClaimFields[MinOf(TokensIn(q))] ELSE "roi"

\* C4: validate_adaptive selects one strategy, first match wins: specific_metric
\* when the classifier finds a metric, else ranking when the lower-cased question
\* contains a ranking token or word, else general_fact_check; every result
\* carries the strategy tag.
C4_StrategySelection ==
    Called("validate_adaptive") =>
        /\ HasKey(result.value, "strategy")
        /\ result.value.strategy = ClaimedStrategy(metric_patterns, call.user_question)

\* a question with a metric and a ranking word is answered by specific_metric
C4_Witness ==
    /\ Called("validate_adaptive")
    /\ HasClaimWord(call.user_question)
    /\ extract_metric_from_question(metric_patterns, call.user_question) # NoMetric
    /\ result.value.strategy = "specific_metric"

\* C5: on the ranking strategy, the metric given to the ranking validator is the
\* first token of (roi, mroi, contribution_pct, spend) that occurs in the
\* lower-cased question, and roi when none occurs.
C5_RankingMetricIsFirstToken ==
    (Called("validate_adaptive") /\ result.value.strategy = "ranking") =>
        result.value.metric = ClaimedRankingMetric(call.user_question)

\* the entity that validate_specific_query is about, and the entities it names
SpecificEntity(q, hint, source_data) == IF hint = <<>> THEN extract_channel_name(q, source_data) ELSE hint
EntitiesNamed(e, source_data) ==
    {k \in DOMAIN GetChannels(source_data) :
        \/ Lower(GetChannels(source_data)[k].name) = Lower(e)
        \/ Lower(GetChannels(source_data)[k].id) = Lower(e)}
C9_Holds(m, e, source_data, numbers, res) ==
    IF m = NoMetric \/ e = <<>>
    THEN res = [specific_validation |-> FALSE, reason |-> ReasonNotIdentified]
    ELSE IF \/ EntitiesNamed(e, source_data) = {}
            \/ m \notin DOMAIN GetChannels(source_data)[MinOf(EntitiesNamed(e, source_data))].metrics
    THEN res = [specific_validation |-> FALSE, reason |-> ReasonNotInSource]
    ELSE /\ res.specific_validation = TRUE
         /\ res.true_value = GetChannels(source_data)[MinOf(EntitiesNamed(e, source_data))].metrics[m]
         /\ res.found_in_response = (\E k \in DOMAIN numbers : Abs(numbers[k] - res.true_value) < Scale \div 100)

\* C9: validate_specific_query is inconclusive with the reason "could not
\* identify specific metric or channel" when the metric or the entity cannot be
\* inferred, and with "could not find metric in source data" when the entity is
\* not in the dataset or lacks the metric field; otherwise specific_validation is
\* true, true_value is the stored value of the entity (matched on name or id,
\* letter case ignored) and found_in_response holds iff a decimal number of the
\* response is within 0.01 of true_value.
C9_SpecificQuery ==
    Called("validate_specific_query") =>
        C9_Holds(extract_metric_from_question(metric_patterns, call.user_question),
                 SpecificEntity(call.user_question, call.channel_name, call.source_data),
                 call.source_data, FindNumbers(call.ai_response), result.value)

\* the hint names the entity in another letter case and its value is in the response
C9_Witness ==
    /\ Called("validate_specific_query")
    /\ call.channel_name = H_FACEBOOK
    /\ result.value.specific_validation = TRUE
    /\ result.value.true_value = Num(3, 4700)
    /\ result.value.found_in_response = TRUE

\* the entities mentioned in the response and the place of each in the true ranking
MentionedIn(ai_response, channels) ==
    {i \in DOMAIN channels : Contains(Lower(ai_response), Lower(channels[i].name))}
KeyOf(channels, metric, i) == IF metric \in DOMAIN channels[i].metrics THEN channels[i].metrics[metric] ELSE 0
Before(channels, metric, i) ==
    {j \in DOMAIN channels :
        \/ KeyOf(channels, metric, j) > KeyOf(channels, metric, i)
        \/ (KeyOf(channels, metric, j) = KeyOf(channels, metric, i) /\ j < i)}
ClaimedOverlap(ai_response, metric, channels) ==
    Cardinality({i \in MentionedIn(ai_response, channels) :
        Cardinality(Before(channels, metric, i)) < Cardinality(MentionedIn(ai_response, channels))})

\* C10: overlap_count is the number of mentioned entities among the first k
\* entities of the dataset sorted by the metric in descending order (missing
\* metric = 0, ties in dataset order), k the number of mentioned entities;
\* is_plausible holds iff overlap_count >= 3, so never with fewer than 3 mentions.
C10_RankingOverlap ==
    Called("validate_ranking") =>
        /\ result.value.overlap_count =
              ClaimedOverlap(call.ai_response, call.ranking_metric, GetChannels(call.source_data))
        /\ result.value.is_plausible = (result.value.overlap_count >= 3)
        /\ (Len(result.value.ai_mentioned_channels) < 3 => ~result.value.is_plausible)

\* entities A:5, B:3, C:1 and a response naming A and B: overlap 2, not plausible
C10_Witness ==
    /\ Called("validate_ranking")
    /\ call.source_data.channels = <<chA, chB, chC>>
    /\ call.ranking_metric = "roi"
    /\ result.value.ai_mentioned_channels = <<Tx_A, Tx_B>>
    /\ result.value.overlap_count = 2
    /\ ~result.value.is_plausible

\* no entity record of the dataset has the field
NoEntityHas(metric, channels) == channels # <<>> /\ \A i \in DOMAIN channels : metric \notin DOMAIN channels[i].metrics

\* C11: when the ranking metric is a field that the entity records do not have,
\* validate_ranking returns an error result with valid = false and an error
\* description instead of a ranking result.
C11_MissingMetricIsError ==
    (Called("validate_ranking") /\ NoEntityHas(call.ranking_metric, GetChannels(call.source_data))) =>
        /\ HasKey(result.value, "error")
        /\ HasKey(result.value, "valid")
        /\ result.value.valid = FALSE
        /\ ~HasKey(result.value, "overlap_count")

\* the metrics in the order of their declaration, and the whole-word matches
DeclaredMetrics == <<"roi", "mroi", "contribution", "spend", "revenue">>
WholeWordAt(q, s, i) ==
    /\ i + Len(s) - 1 <= Len(q)
    /\ \A k \in 1..Len(s) : q[i + k - 1] = s[k]
    /\ (i = 1 \/ ~IsWordChar(q[i - 1]))
    /\ (i + Len(s) - 1 = Len(q) \/ ~IsWordChar(q[i + Len(s)]))
MetricsMatching(table, lowered) ==
    {k \in DOMAIN table : \E n \in DOMAIN table[k].synonyms : \E i \in 1..Len(lowered) :
        WholeWordAt(lowered, table[k].synonyms[n], i)}
FirstDeclared(Matching) == IF Matching = {} THEN NoMetric ELSE DeclaredMetrics[MinOf(Matching)]

\* C12: extract_metric_from_question returns the first metric, in the order
\* roi, mroi, contribution, spend, revenue, whose synonym pattern matches the
\* lower-cased question as whole words, and none when no pattern matches; the
\* metric-pattern table is the one set at construction before and after every call.
C12_FirstDeclaredMetric ==
    /\ metric_patterns = MetricPatterns
    /\ Called("extract_metric_from_question") =>
          /\ [k \in DOMAIN metric_patterns |-> metric_patterns[k].metric] = DeclaredMetrics
          /\ result.value = FirstDeclared(MetricsMatching(metric_patterns, Lower(call.question)))

\* a question that matches the patterns of roi and of mroi is classified roi
C12_Witness ==
    /\ Called("extract_metric_from_question")
    /\ {1, 2} \subseteq MetricsMatching(metric_patterns, Lower(call.question))
    /\ result.value = "roi"

\* the numeric leaves and the numbers of the string leaves of a dataset
EntityNumbers(channel) == [k \in 1..Len(SelectSeq(EntityFields, LAMBDA f : f \in DOMAIN channel.metrics)) |->
                              channel.metrics[SelectSeq(EntityFields, LAMBDA f : f \in DOMAIN channel.metrics)[k]]]
NumericLeaves(source_data) ==
    [k \in 1..Len(SelectSeq(source_data.meta, LAMBDA l : l.kind = "num")) |->
        SelectSeq(source_data.meta, LAMBDA l : l.kind = "num")[k].v]
    \o Concat([k \in 1..Len(GetChannels(source_data)) |-> EntityNumbers(GetChannels(source_data)[k])])
StringNumbers(source_data) ==
    Concat([k \in 1..Len(SelectSeq(source_data.meta, LAMBDA l : l.kind = "str")) |->
        FindNumbers(SelectSeq(source_data.meta, LAMBDA l : l.kind = "str")[k].s)])
    \o Concat([k \in 1..Len(GetChannels(source_data)) |->
        FindNumbers(GetChannels(source_data)[k].name) \o FindNumbers(GetChannels(source_data)[k].id)])
Count(xs, v) == Cardinality({k \in DOMAIN xs : xs[k] = v})
\* v is x * 100 rounded to 2 decimals
IsPercentOf(v, x) == v % (Scale \div 100) = 0 /\ 2 * Abs(v - 100 * x) <= Scale \div 100
PercentForms(leaves, v) == Cardinality({k \in DOMAIN leaves : 0 < leaves[k] /\ leaves[k] < Scale /\ IsPercentOf(v, leaves[k])})
C13_Holds(bag, leaves, strings) ==
    /\ Len(bag) = Len(leaves) + Len(strings) + Cardinality({k \in DOMAIN leaves : 0 < leaves[k] /\ leaves[k] < Scale})
    /\ \A v \in Range(bag) \cup Range(leaves) :
          Count(bag, v) = Count(leaves, v) + PercentForms(leaves, v) + Count(strings, v)
claimPercent == CHOOSE c \in ClaimPool : c.display_value = <<"2", "7", "%">>

\* C13: for every numeric leaf x of the dataset the bag of _extract_source_numbers
\* contains x, and additionally x * 100 rounded to 2 decimals exactly when
\* 0 < x < 1; with a source value 0.27 a claim extracted from "27%" verifies.
C13_PercentNormalisation ==
    /\ Called("_extract_source_numbers") =>
          C13_Holds(result.value, NumericLeaves(call.source_data), StringNumbers(call.source_data))
    /\ (/\ Called("validate_claims")
        /\ call.claims = <<claimPercent>>
        /\ Num(0, 2700) \in Range(NumericLeaves(call.source_data)))
          => result.value.verified = 1 /\ result.value.verified_claims[1].matched_source = Num(27, 0)

\* a dataset with the leaves 0.27, 1 and 0: the bag holds 0.27 and 27.0, and
\* no percent form of 1 or of 0
C13_Witness ==
    /\ Called("_extract_source_numbers")
    /\ {Num(0, 2700), Num(1, 0), 0} \subseteq Range(NumericLeaves(call.source_data))
    /\ Count(result.value, Num(0, 2700)) = 1
    /\ Count(result.value, Num(27, 0)) = 1
    /\ Num(100, 0) \notin Range(result.value)
    /\ Count(result.value, 0) = 1

\* the positions of the text that a claim's match covers
SpanOf(claim) == (claim.position + 1)..(claim.position + Len(claim.display_value))

\* C14: the digits captured by a more specific pattern are not captured again,
\* in whole or in part, as a claim of type number: no number claim covers a
\* position that a claim of another type covers, so "$1,200" yields one
\* currency claim and no number claim.
C14_NoRecapture ==
    Called("extract_numerical_claims") =>
        \A a, b \in DOMAIN result.value :
            (result.value[a].claim_type = "number" /\ result.value[b].claim_type # "number")
                => SpanOf(result.value[a]) \cap SpanOf(result.value[b]) = {}

\* C15: in ask, the dataset passed to validate_response carries the entity
\* records as a list under the key channels, so that the validators see every
\* channel of the loaded data, whether or not a channel name was given.
C15_ContextHasChannels ==
    Called("ask") =>
        /\ call.context.has_channels
        /\ GetChannels(call.context) = call.data.channels

\* C16: whenever validate_response returns, overall_valid equals
\* general_validation.valid: the results of the specific_metric and ranking
\* strategies carry no valid field, so found_in_response = false or
\* is_plausible = false never makes overall_valid false, and on the
\* general_fact_check strategy the adaptive valid equals the general valid.
C16_OverallIsGeneral ==
    (Called("validate_response") /\ result.status = "returned") =>
        /\ result.value.overall_valid = result.value.general_validation.valid
        /\ (result.value.adaptive_validation.strategy \in {"specific_metric", "ranking"}
               => "valid" \notin DOMAIN result.value.adaptive_validation)
        /\ (result.value.adaptive_validation.strategy = "general_fact_check"
               => result.value.adaptive_validation.valid = result.value.general_validation.valid)

\* a ranking result that is not plausible in a report that is valid
C16_Witness ==
    /\ Called("validate_response")
    /\ result.status = "returned"
    /\ result.value.adaptive_validation.strategy = "ranking"
    /\ ~result.value.adaptive_validation.is_plausible
    /\ result.value.general_validation.valid
    /\ result.value.overall_valid

\* a specific-query result whose value is not in the response, in a valid report
C16_SpecificNotFound ==
    /\ Called("validate_response")
    /\ result.status = "returned"
    /\ result.value.adaptive_validation.strategy = "specific_metric"
    /\ result.value.adaptive_validation.specific_validation
    /\ ~result.value.adaptive_validation.found_in_response
    /\ result.value.overall_valid

====
